---- MODULE Spec2Model ----
(***************************************************************************)
(* Model of examples/kdv/train.py: the two callbacks read_data_fn and      *)
(* pde_fn and the entry point main, driven by the training engine          *)
(* pinnstorch.train.  Each statement of the script is one action; the      *)
(* library calls it makes (numpy, torch, pinnstorch.utils) are operators.  *)
(***************************************************************************)
EXTENDS Integers, Sequences, FiniteSets, TLC

(* ------------------------------ bounds --------------------------------- *)
\* largest number of rows / columns of the array stored in KdV.mat
MaxNx == 2
MaxNt == 2
\* largest number of collocation points in the coordinate tensor x
MaxPts == 2
\* largest number of residual evaluations one training run performs
MaxEvals == 2

(* --------------------------- small helpers ----------------------------- *)
Abs(n) == IF n < 0 THEN -n ELSE n

Sign(n) == IF n > 0 THEN 1 ELSE IF n < 0 THEN -1 ELSE 0

\* a Python dict with no entry
EmptyDict == <<>>

\* dict d with d[k] = v added or overwritten
DictSet(d, k, v) == [j \in (DOMAIN d) \cup {k} |-> IF j = k THEN v ELSE d[j]]

(* ------------------------- numpy arrays (loadmat) ---------------------- *)
\* One array element: a complex number re + im*j, or (dtype "str") a text s.
Elem(re, im, s) == [re |-> re, im |-> im, s |-> s]

\* Values the generator below fills arrays with; 16777217 = 2^24 + 1 is the
\* first integer float32 cannot hold.
NumPool == << Elem(1, 0, ""), Elem(-2, 3, ""), Elem(16777217, -1, ""), Elem(0, 5, "") >>

\* values of a real (float64) array; -16777219 lies halfway between two float32
RealPool == << Elem(3, 0, ""), Elem(-16777219, 0, ""), Elem(0, 0, "") >>

StrPool == << Elem(0, 0, "12"), Elem(0, 0, "ab") >>

\* the nx-by-nt array (row major) whose k-th element is pool[(k + off) mod Len]
Fill(pool, dtype, shape, n, off) ==
    [dtype |-> dtype, shape |-> shape,
     elems |-> [k \in 1..n |-> pool[((k - 1 + off) % Len(pool)) + 1]]]

NumArrays ==
    { Fill(NumPool, "complex128", <<nx, nt>>, nx * nt, off) :
        nx \in 1..MaxNx, nt \in 1..MaxNt, off \in 0..(Len(NumPool) - 1) }
      \cup { Fill(RealPool, "float64", <<nx, nt>>, nx * nt, off) :
                nx \in 1..MaxNx, nt \in 1..MaxNt, off \in 0..(Len(RealPool) - 1) }

\* MATLAB char data: loadmat yields a 1-d array of strings
StrArrays ==
    { Fill(StrPool, "str", <<n>>, n, off) : n \in 1..MaxNx, off \in 0..(Len(StrPool) - 1) }

\* an array no variable is bound to yet
NoArray == [dtype |-> "none", shape |-> <<>>, elems |-> <<>>]

\* what scipy's loadmat can return for KdV.mat: a dict of the file's fields
MatDicts ==
    { [k \in {"uu"} |-> a] : a \in NumArrays \cup StrArrays }
      \cup { [k \in {"uu", "tt"} |-> a] : a \in NumArrays }
      \cup { [k \in {"tt"} |-> a] : a \in NumArrays }
      \cup { EmptyDict }

\* python float(s) on the texts of StrPool: the parsed value, or no value
CanParseFloat(s) == s = "12"

ParseFloat(s) == IF s = "12" THEN 12 ELSE 0

\* float64 -> float32 on integers below 2^25: 24 bits of mantissa, round to
\* nearest, ties to even
TwoTo24 == 16777216

ToFloat32(v) ==
    IF Abs(v) <= TwoTo24 THEN v
    ELSE IF v % 2 = 0 THEN v
    ELSE IF ((v - 1) \div 2) % 2 = 0 THEN v - 1 ELSE v + 1

\* a bug np.real could be mistaken for: the imaginary parts are kept
np_imag(a) ==
    IF a.dtype = "complex128"
    THEN [dtype |-> "float64", shape |-> a.shape,
          elems |-> [k \in DOMAIN a.elems |-> Elem(a.elems[k].im, 0, "")]]
    ELSE a

\* np.real(a): the real parts of a complex array; any other array unchanged
np_real(a) ==
    IF a.dtype = "complex128"
    THEN [dtype |-> "float64", shape |-> a.shape,
          elems |-> [k \in DOMAIN a.elems |-> Elem(a.elems[k].re, 0, "")]]
    ELSE a

\* a.astype("float32") raises ValueError on a text that is no number
astype_fails(a) ==
    a.dtype = "str" /\ \E k \in DOMAIN a.elems : ~CanParseFloat(a.elems[k].s)

astype_float32(a) ==
    [dtype |-> "float32", shape |-> a.shape,
     elems |-> [k \in DOMAIN a.elems |->
                  IF a.dtype = "str"
                  THEN Elem(ToFloat32(ParseFloat(a.elems[k].s)), 0, "")
                  ELSE Elem(ToFloat32(a.elems[k].re), ToFloat32(a.elems[k].im), "")]]

(* ------------------ float32 scalars as torch computes them ------------- *)
\* A float32 value of this model is  c + e * exp(l2)  (kind "fin", with l2 the
\* parameter of the running call), an infinity of sign c (kind "inf"), or
\* NaN (kind "nan").  exp(l2) is irrational for every integer l2 # 0, so two
\* finite values are equal exactly when their c and e agree.
Fin(c, e) == [k |-> "fin", c |-> c, e |-> e]

Inf(sgn) == [k |-> "inf", c |-> sgn, e |-> 0]

NaN == [k |-> "nan", c |-> 0, e |-> 0]

\* largest integer whose exponential float32 still holds (exp(89) > 3.4e38)
ExpMaxArg == 88

\* torch.exp(l2) for an integer-valued parameter l2
torch_exp(l2) ==
    IF l2 > ExpMaxArg THEN Inf(1)
    ELSE IF l2 = 0 THEN Fin(1, 0)
    ELSE Fin(0, 1)

\* sign of a finite value; values carrying an exp(l2) part are never
\* multiplied by an infinity in line 31, whose infinity meets U_xxx only
FSign(a) == IF a.e = 0 THEN Sign(a.c) ELSE Sign(a.e)

\* unary minus
FNeg(a) ==
    IF a.k = "nan" THEN NaN
    ELSE IF a.k = "inf" THEN Inf(-a.c)
    ELSE Fin(-a.c, -a.e)

\* a * b; in line 31 at most one factor carries an exp(l2) part
FMul(a, b) ==
    IF a.k = "nan" \/ b.k = "nan" THEN NaN
    ELSE IF a.k = "inf" /\ b.k = "inf" THEN Inf(a.c * b.c)
    ELSE IF a.k = "inf" THEN (IF FSign(b) = 0 THEN NaN ELSE Inf(a.c * FSign(b)))
    ELSE IF b.k = "inf" THEN (IF FSign(a) = 0 THEN NaN ELSE Inf(b.c * FSign(a)))
    ELSE Fin(a.c * b.c, a.c * b.e + a.e * b.c)

\* a - b
FSub(a, b) ==
    IF a.k = "nan" \/ b.k = "nan" THEN NaN
    ELSE IF a.k = "inf" /\ b.k = "inf" THEN (IF a.c = b.c THEN NaN ELSE Inf(a.c))
    ELSE IF a.k = "inf" THEN a
    ELSE IF b.k = "inf" THEN Inf(-b.c)
    ELSE Fin(a.c - b.c, a.e - b.e)

\* a + b
FAdd(a, b) == FSub(a, FNeg(b))

(* ------------------------------ tensors -------------------------------- *)
\* A network output is a polynomial in the coordinate: g = <<a0, a1, ...>> is
\* its graph (u(x) = a0 + a1 x + a2 x^2 + ...; <<>> is the zero function), v its
\* value at every point of x.  Only the tensors pde_fn differentiates carry
\* their graph here: f, which it only stores, is kept by its values.
Tensor(g, v) == [g |-> g, v |-> v]

NoTensor == Tensor(<<>>, <<>>)

RECURSIVE EvalPoly(_, _)
\* Horner evaluation of the polynomial g at the point p
EvalPoly(g, p) == IF g = <<>> THEN 0 ELSE Head(g) + p * EvalPoly(Tail(g), p)

\* the coefficients of the derivative of g
DerivPoly(g) == IF Len(g) <= 1 THEN <<>> ELSE [i \in 1..(Len(g) - 1) |-> i * g[i + 1]]

\* the tensor of the function g over the points of the coordinate tensor x
OnPoints(g, x) == Tensor(g, [i \in DOMAIN x.v |-> Fin(EvalPoly(g, x.v[i]), 0)])

\* coordinate values the generator fills x with
XPool == << 0, 1, -2, 3 >>

Coordinates ==
    { [v |-> [i \in 1..n |-> XPool[((i - 1 + off) % Len(XPool)) + 1]], requires_grad |-> rg] :
        n \in 1..MaxPts, off \in 0..(Len(XPool) - 1), rg \in BOOLEAN }

NoCoordinates == [v |-> <<>>, requires_grad |-> FALSE]

\* network outputs u(x): constants, the identity, and functions with a
\* non-zero third derivative
Networks == { <<0>>, <<2>>, <<-3>>, <<0, 1>>, <<0, 0, 0, 1>>, <<1, -1, 2, 1>> }

L1Vals == { -1, 0, 2 }

L2Vals == { -1, 0, 1, ExpMaxArg + 1 }

ExtraVariables == { [l1 |-> a, l2 |-> b] : a \in L1Vals, b \in L2Vals }

NoExtraVariables == [l1 |-> 0, l2 |-> 0]

\* pinnstorch.utils.fwd_gradient(dy, dx): the derivative of dy with respect
\* to dx; it fails when dx does not require differentiation
fwd_gradient_fails(dy, dx) == ~dx.requires_grad

fwd_gradient(dy, dx) == OnPoints(DerivPoly(dy.g), dx)

(* ------------------------------- state --------------------------------- *)
VARIABLES
    mpc,              \* main: the line it is about to run, "returned" or "raised"
    trace,            \* main: the library routines it has called, in order
    metric_dict,      \* main: what train returned
    metric_names,     \* main: cfg.get("optimized_metric") as line 54 read it
    metric_value,     \* main: what get_metric_value returned
    result,           \* main: its return value
    tpc,              \* train: "idle", "load", "fit", "done" or "failed"
    evals,            \* train: residual evaluations started so far
    fn,               \* the callback train is running, "" when none
    pc,               \* callback: the line it is about to run, "returned" or "raised"
    err,              \* the exception in flight: its type and the line that raised it
    ret,              \* callback: the object it returned (0: nothing)
    heap,             \* the dicts alive during the callback, by object id
    calls,            \* callback: the library routines it has called, in order
    faults,           \* callback: how many of those calls (or lookups) failed
    root_path,        \* read_data_fn: the directory it is given
    data,             \* read_data_fn: local of line 19
    exact_u,          \* read_data_fn: local of line 20
    outputs,          \* pde_fn: the object id of its first argument
    x,                \* pde_fn: the coordinate tensor
    extra_variables,  \* pde_fn: the learnable scalars l1, l2
    U, U_x, U_xx, U_xxx,   \* pde_fn: locals of lines 27-30
    entry,            \* history: the outputs dict as pde_fn was entered
    repeat,           \* history: this call repeats the previous call's arguments
    prev_f            \* history: the f the previous call stored

mainVars == << mpc, trace, metric_dict, metric_names, metric_value, result >>

trainVars == << tpc, evals >>

readVars == << root_path, data, exact_u >>

pdeVars == << outputs, x, extra_variables, U, U_x, U_xx, U_xxx >>

histVars == << entry, repeat, prev_f >>

frameVars == << fn, pc, err, ret, heap, calls, faults >>

vars == << mainVars, trainVars, frameVars, readVars, pdeVars, histVars >>

NoErr == [type |-> "", line |-> 0]

\* Optional[float]
None == [some |-> FALSE, val |-> 0]

Some(v) == [some |-> TRUE, val |-> v]

\* a directory: whether it holds KdV.mat, and what loadmat reads from it
Directories ==
    { [has_file |-> TRUE, mat |-> m] : m \in MatDicts }
      \cup { [has_file |-> FALSE, mat |-> EmptyDict] }

NoDirectory == [has_file |-> FALSE, mat |-> EmptyDict]

\* a stale residual and an unrelated output a caller may pass along with u
StaleF == Tensor(<<>>, << Fin(7, 0) >>)

OtherV == Tensor(<<>>, << Fin(4, 0) >>)

\* the outputs dicts the engine passes: u (net a network over the points of
\* c) with or without other keys, or a dict that lacks u
OutputDicts(net, c) ==
    { [k \in {"u"} |-> OnPoints(net, c)],
      [k \in {"u", "v"} |-> IF k = "u" THEN OnPoints(net, c) ELSE OtherV],
      [k \in {"u", "f"} |-> IF k = "u" THEN OnPoints(net, c) ELSE StaleF],
      [k \in {"v", "f"} |-> IF k = "v" THEN OtherV ELSE StaleF],
      EmptyDict }

\* metric dictionaries train can return, and values of cfg optimized_metric
\* ("" when the configuration sets none)
MetricDicts == { EmptyDict, [k \in {"val/loss"} |-> 5], [k \in {"val/loss", "train/loss"} |-> IF k = "val/loss" THEN 5 ELSE 9] }

MetricNames == { "", "val/loss", "test/loss" }

Init ==
    /\ mpc = "l45" /\ trace = <<>> /\ metric_dict = EmptyDict /\ metric_names = ""
    /\ metric_value = None /\ result = None
    /\ tpc = "idle" /\ evals = 0
    /\ fn = "" /\ pc = "" /\ err = NoErr /\ ret = 0 /\ heap = <<>> /\ calls = <<>>
    /\ faults = 0
    /\ root_path = NoDirectory /\ data = EmptyDict /\ exact_u = NoArray
    /\ outputs = 0 /\ x = NoCoordinates /\ extra_variables = NoExtraVariables
    /\ U = NoTensor /\ U_x = NoTensor /\ U_xx = NoTensor /\ U_xxx = NoTensor
    /\ entry = EmptyDict /\ repeat = FALSE /\ prev_f = NoTensor

\* an operation of the running callback fails and its exception leaves the
\* callback, which has no try statement
Raise(type, line) ==
    /\ faults' = faults + 1
    /\ pc' = "raised"
    /\ err' = [type |-> type, line |-> line]

(* ---------------------------- read_data_fn ----------------------------- *)
\* pinnstorch.utils.load_data(root_path, "KdV.mat")
load_data_fails(dir) == ~dir.has_file

load_data(dir) == dir.mat

\* line 19: data = pinnstorch.utils.load_data(root_path, "KdV.mat")
read_l19 ==
    /\ fn = "read_data_fn" /\ pc = "l19"
    /\ calls' = Append(calls, "load_data")
    /\ \/ /\ load_data_fails(root_path)
          /\ Raise("DataNotFoundError", 19)
          /\ UNCHANGED data
       \/ /\ ~load_data_fails(root_path)
          /\ data' = load_data(root_path)
          /\ pc' = "l20"
          /\ UNCHANGED << err, faults >>
    /\ UNCHANGED << mainVars, trainVars, fn, ret, heap, root_path, exact_u, pdeVars, histVars >>

\* line 20 as data.get("uu", <empty array>) would run it: a missing field is
\* replaced by a default and nothing is raised
read_l20_default ==
    /\ fn = "read_data_fn" /\ pc = "l20"
    /\ LET a == IF "uu" \in DOMAIN data THEN data["uu"]
                ELSE [dtype |-> "float64", shape |-> <<0, 0>>, elems |-> <<>>]
       IN  \/ /\ astype_fails(np_real(a))
              /\ Raise("ValueError", 20)
              /\ UNCHANGED exact_u
           \/ /\ ~astype_fails(np_real(a))
              /\ exact_u' = astype_float32(np_real(a))
              /\ pc' = "l21"
              /\ UNCHANGED << err, faults >>
    /\ calls' = calls \o << "np.real", "astype" >>
    /\ UNCHANGED << mainVars, trainVars, fn, ret, heap, root_path, data, pdeVars, histVars >>

\* line 20: exact_u = np.real(data["uu"]).astype("float32")
read_l20 ==
    /\ fn = "read_data_fn" /\ pc = "l20"
    /\ \/ /\ "uu" \notin DOMAIN data
          /\ Raise("KeyError", 20)
          /\ UNCHANGED << exact_u, calls >>
       \/ /\ "uu" \in DOMAIN data
          /\ astype_fails(np_real(data["uu"]))
          /\ Raise("ValueError", 20)
          /\ calls' = calls \o << "np.real", "astype" >>
          /\ UNCHANGED exact_u
       \/ /\ "uu" \in DOMAIN data
          /\ ~astype_fails(np_real(data["uu"]))
          /\ exact_u' = astype_float32(np_real(data["uu"]))
          /\ calls' = calls \o << "np.real", "astype" >>
          /\ pc' = "l21"
          /\ UNCHANGED << err, faults >>
    /\ UNCHANGED << mainVars, trainVars, fn, ret, heap, root_path, data, pdeVars, histVars >>

\* line 21: return {"u": exact_u}
read_l21 ==
    /\ fn = "read_data_fn" /\ pc = "l21"
    /\ heap' = Append(heap, [k \in {"u"} |-> exact_u])
    /\ ret' = Len(heap) + 1
    /\ pc' = "returned"
    /\ UNCHANGED << mainVars, trainVars, fn, err, calls, faults, readVars, pdeVars, histVars >>

(* ------------------------------- pde_fn -------------------------------- *)
\* line 27 as outputs.get("u", <zeros>) would run it
pde_l27_default ==
    /\ fn = "pde_fn" /\ pc = "l27"
    /\ U' = IF "u" \in DOMAIN heap[outputs] THEN heap[outputs]["u"] ELSE OnPoints(<<>>, x)
    /\ pc' = "l28"
    /\ UNCHANGED << mainVars, trainVars, fn, err, ret, heap, calls, faults, readVars,
                    outputs, x, extra_variables, U_x, U_xx, U_xxx, histVars >>

\* line 27: U = outputs["u"]
pde_l27 ==
    /\ fn = "pde_fn" /\ pc = "l27"
    /\ \/ /\ "u" \notin DOMAIN heap[outputs]
          /\ Raise("KeyError", 27)
          /\ UNCHANGED U
       \/ /\ "u" \in DOMAIN heap[outputs]
          /\ U' = heap[outputs]["u"]
          /\ pc' = "l28"
          /\ UNCHANGED << err, faults >>
    /\ UNCHANGED << mainVars, trainVars, fn, ret, heap, calls, readVars,
                    outputs, x, extra_variables, U_x, U_xx, U_xxx, histVars >>

\* Each call of fwd_gradient has three outcomes: it raises
\* NonDifferentiableInputError, the autodiff engine fails for a reason of its
\* own (RuntimeError, e.g. memory exhausted), or it yields the derivative.

\* line 28: U_x = pinnstorch.utils.fwd_gradient(U, x)
pde_l28 ==
    /\ fn = "pde_fn" /\ pc = "l28"
    /\ calls' = Append(calls, "fwd_gradient")
    /\ \/ /\ fwd_gradient_fails(U, x)
          /\ Raise("NonDifferentiableInputError", 28)
          /\ UNCHANGED U_x
       \/ /\ ~fwd_gradient_fails(U, x)
          /\ Raise("RuntimeError", 28)
          /\ UNCHANGED U_x
       \/ /\ ~fwd_gradient_fails(U, x)
          /\ U_x' = fwd_gradient(U, x)
          /\ pc' = "l29"
          /\ UNCHANGED << err, faults >>
    /\ UNCHANGED << mainVars, trainVars, fn, ret, heap, readVars,
                    outputs, x, extra_variables, U, U_xx, U_xxx, histVars >>

\* line 29 inside a try statement whose handler substitutes zeros
pde_l29_caught ==
    /\ fn = "pde_fn" /\ pc = "l29"
    /\ calls' = Append(calls, "fwd_gradient")
    /\ \/ /\ faults' = faults + 1
          /\ U_xx' = OnPoints(<<>>, x)
       \/ /\ ~fwd_gradient_fails(U_x, x)
          /\ U_xx' = fwd_gradient(U_x, x)
          /\ UNCHANGED faults
    /\ pc' = "l30"
    /\ UNCHANGED << mainVars, trainVars, fn, err, ret, heap, readVars,
                    outputs, x, extra_variables, U, U_x, U_xxx, histVars >>

\* line 29: U_xx = pinnstorch.utils.fwd_gradient(U_x, x)
pde_l29 ==
    /\ fn = "pde_fn" /\ pc = "l29"
    /\ calls' = Append(calls, "fwd_gradient")
    /\ \/ /\ fwd_gradient_fails(U_x, x)
          /\ Raise("NonDifferentiableInputError", 29)
          /\ UNCHANGED U_xx
       \/ /\ ~fwd_gradient_fails(U_x, x)
          /\ Raise("RuntimeError", 29)
          /\ UNCHANGED U_xx
       \/ /\ ~fwd_gradient_fails(U_x, x)
          /\ U_xx' = fwd_gradient(U_x, x)
          /\ pc' = "l30"
          /\ UNCHANGED << err, faults >>
    /\ UNCHANGED << mainVars, trainVars, fn, ret, heap, readVars,
                    outputs, x, extra_variables, U, U_x, U_xxx, histVars >>

\* line 30 differentiating U_x once more instead of U_xx
pde_l30_of_U_x ==
    /\ fn = "pde_fn" /\ pc = "l30"
    /\ calls' = Append(calls, "fwd_gradient")
    /\ \/ /\ fwd_gradient_fails(U_x, x)
          /\ Raise("NonDifferentiableInputError", 30)
          /\ UNCHANGED U_xxx
       \/ /\ ~fwd_gradient_fails(U_x, x)
          /\ U_xxx' = fwd_gradient(U_x, x)
          /\ pc' = "l31"
          /\ UNCHANGED << err, faults >>
    /\ UNCHANGED << mainVars, trainVars, fn, ret, heap, readVars,
                    outputs, x, extra_variables, U, U_x, U_xx, histVars >>

\* line 30: U_xxx = pinnstorch.utils.fwd_gradient(U_xx, x)
pde_l30 ==
    /\ fn = "pde_fn" /\ pc = "l30"
    /\ calls' = Append(calls, "fwd_gradient")
    /\ \/ /\ fwd_gradient_fails(U_xx, x)
          /\ Raise("NonDifferentiableInputError", 30)
          /\ UNCHANGED U_xxx
       \/ /\ ~fwd_gradient_fails(U_xx, x)
          /\ Raise("RuntimeError", 30)
          /\ UNCHANGED U_xxx
       \/ /\ ~fwd_gradient_fails(U_xx, x)
          /\ U_xxx' = fwd_gradient(U_xx, x)
          /\ pc' = "l31"
          /\ UNCHANGED << err, faults >>
    /\ UNCHANGED << mainVars, trainVars, fn, ret, heap, readVars,
                    outputs, x, extra_variables, U, U_x, U_xx, histVars >>

\* line 31 with the factor U_x of the first term left out
Residual_no_U_x(ev, u, ux, uxxx) ==
    [i \in DOMAIN u.v |->
        FSub(FMul(FNeg(Fin(ev.l1, 0)), u.v[i]), FMul(torch_exp(ev.l2), uxxx.v[i]))]

\* line 31 with the coefficients l1 and l2 wired the wrong way round
Residual_swapped(ev, u, ux, uxxx) ==
    [i \in DOMAIN u.v |->
        FSub(FMul(FMul(FNeg(Fin(ev.l2, 0)), u.v[i]), ux.v[i]),
             FMul(torch_exp(ev.l1), uxxx.v[i]))]

\* the right-hand side of line 31, point by point:
\*   -extra_variables["l1"] * U * U_x - torch.exp(extra_variables["l2"]) * U_xxx
Residual(ev, u, ux, uxxx) ==
    [i \in DOMAIN u.v |->
        FSub(FMul(FMul(FNeg(Fin(ev.l1, 0)), u.v[i]), ux.v[i]),
             FMul(torch_exp(ev.l2), uxxx.v[i]))]

\* line 31 as outputs["f"] += <the residual> would run it when f is there
pde_l31_accumulate ==
    /\ fn = "pde_fn" /\ pc = "l31"
    /\ LET r == Residual(extra_variables, U, U_x, U_xxx)
           old == heap[outputs]
           sum == IF "f" \in DOMAIN old /\ DOMAIN old["f"].v = DOMAIN r
                  THEN [i \in DOMAIN r |-> FAdd(old["f"].v[i], r[i])]
                  ELSE r
       IN  heap' = [heap EXCEPT ![outputs] = DictSet(@, "f", Tensor(<<>>, sum))]
    /\ pc' = "l32"
    /\ UNCHANGED << mainVars, trainVars, fn, err, ret, calls, faults, readVars, pdeVars, histVars >>

\* line 31: outputs["f"] = <the residual>
pde_l31 ==
    /\ fn = "pde_fn" /\ pc = "l31"
    /\ heap' = [heap EXCEPT ![outputs] =
                  DictSet(@, "f", Tensor(<<>>, Residual(extra_variables, U, U_x, U_xxx)))]
    /\ pc' = "l32"
    /\ UNCHANGED << mainVars, trainVars, fn, err, ret, calls, faults, readVars, pdeVars, histVars >>

\* line 32 as return dict(outputs) would run it: a copy is returned
pde_l32_copy ==
    /\ fn = "pde_fn" /\ pc = "l32"
    /\ heap' = Append(heap, heap[outputs])
    /\ ret' = Len(heap) + 1
    /\ pc' = "returned"
    /\ UNCHANGED << mainVars, trainVars, fn, err, calls, faults, readVars, pdeVars, histVars >>

\* line 32: return outputs
pde_l32 ==
    /\ fn = "pde_fn" /\ pc = "l32"
    /\ ret' = outputs
    /\ pc' = "returned"
    /\ UNCHANGED << mainVars, trainVars, fn, err, heap, calls, faults, readVars, pdeVars, histVars >>

(* ----------------------- pinnstorch.train (engine) ---------------------- *)
\* the callback frame is dropped: its locals and the dicts it held die
DropFrame ==
    /\ fn' = "" /\ pc' = "" /\ ret' = 0 /\ heap' = <<>> /\ calls' = <<>> /\ faults' = 0
    /\ root_path' = NoDirectory /\ data' = EmptyDict /\ exact_u' = NoArray
    /\ outputs' = 0 /\ x' = NoCoordinates /\ extra_variables' = NoExtraVariables
    /\ U' = NoTensor /\ U_x' = NoTensor /\ U_xx' = NoTensor /\ U_xxx' = NoTensor
    /\ entry' = EmptyDict /\ repeat' = FALSE /\ prev_f' = NoTensor

\* train calls read_data_fn(cfg root_path), once, before it fits
train_call_read_data_fn ==
    /\ tpc = "load" /\ fn = ""
    /\ \E dir \in Directories : root_path' = dir
    /\ fn' = "read_data_fn" /\ pc' = "l19"
    /\ UNCHANGED << mainVars, trainVars, err, ret, heap, calls, faults, data, exact_u,
                    pdeVars, histVars >>

\* read_data_fn returned: train keeps the dataset and starts fitting
train_take_data ==
    /\ fn = "read_data_fn" /\ pc = "returned"
    /\ tpc' = "fit"
    /\ DropFrame
    /\ UNCHANGED << mainVars, evals, err >>

\* train calls pde_fn(outputs, x, extra_variables) on a forward pass
train_call_pde_fn ==
    /\ tpc = "fit" /\ fn = "" /\ evals < MaxEvals
    /\ \E c \in Coordinates, net \in Networks, ev \in ExtraVariables :
         \E d \in OutputDicts(net, c) :
            /\ heap' = << d >> /\ outputs' = 1 /\ entry' = d
            /\ x' = c /\ extra_variables' = ev
    /\ fn' = "pde_fn" /\ pc' = "l27"
    /\ evals' = evals + 1
    /\ UNCHANGED << mainVars, tpc, err, ret, calls, faults, readVars, U, U_x, U_xx, U_xxx,
                    repeat, prev_f >>

\* train calls pde_fn again with the arguments of the call that just
\* returned: the same dict (now holding f), the same x and extra_variables
train_recall_pde_fn ==
    /\ fn = "pde_fn" /\ pc = "returned" /\ evals < MaxEvals
    /\ entry' = heap[outputs]
    /\ prev_f' = heap[outputs]["f"]
    /\ repeat' = TRUE
    /\ pc' = "l27" /\ ret' = 0 /\ calls' = <<>>
    /\ U' = NoTensor /\ U_x' = NoTensor /\ U_xx' = NoTensor /\ U_xxx' = NoTensor
    /\ evals' = evals + 1
    /\ UNCHANGED << mainVars, tpc, fn, err, heap, faults, readVars, outputs, x, extra_variables >>

\* pde_fn returned: train takes the residual into its loss
train_take_outputs ==
    /\ fn = "pde_fn" /\ pc = "returned"
    /\ DropFrame
    /\ UNCHANGED << mainVars, trainVars, err >>

\* a callback raised: train does not handle it, and neither does main
train_abort ==
    /\ fn # "" /\ pc = "raised"
    /\ tpc' = "failed" /\ mpc' = "raised"
    /\ DropFrame
    /\ UNCHANGED << trace, metric_dict, metric_names, metric_value, result, evals, err >>

(* --------------------------------- main -------------------------------- *)
\* line 45: pinnstorch.utils.extras(cfg)
main_l45 ==
    /\ mpc = "l45"
    /\ trace' = Append(trace, "extras")
    /\ mpc' = "l48"
    /\ UNCHANGED << metric_dict, metric_names, metric_value, result, trainVars, frameVars,
                    readVars, pdeVars, histVars >>

\* line 48, the call: pinnstorch.train(cfg, read_data_fn=read_data_fn,
\* pde_fn=pde_fn, output_fn=None)
main_l48_call ==
    /\ mpc = "l48" /\ tpc = "idle"
    /\ trace' = Append(trace, "train")
    /\ tpc' = "load"
    /\ UNCHANGED << mpc, metric_dict, metric_names, metric_value, result, evals, frameVars,
                    readVars, pdeVars, histVars >>

\* line 48, the assignment: metric_dict, _ = <what train returned>
main_l48_return ==
    /\ mpc = "l48" /\ tpc = "fit" /\ fn = ""
    /\ \E md \in MetricDicts : metric_dict' = md
    /\ tpc' = "done"
    /\ mpc' = "l53"
    /\ UNCHANGED << trace, metric_names, metric_value, result, evals, frameVars,
                    readVars, pdeVars, histVars >>

\* pinnstorch.utils.get_metric_value(metric_dict, metric_names)
get_metric_value_fails(md, name) == name # "" /\ name \notin DOMAIN md

get_metric_value(md, name) == IF name = "" THEN None ELSE Some(md[name])

\* lines 53-55: metric_value = pinnstorch.utils.get_metric_value(
\*     metric_dict=metric_dict, metric_names=cfg.get("optimized_metric"))
main_l53 ==
    /\ mpc = "l53"
    /\ trace' = Append(trace, "get_metric_value")
    /\ \E name \in MetricNames :
         /\ metric_names' = name
         /\ \/ /\ get_metric_value_fails(metric_dict, name)
               /\ mpc' = "raised"
               /\ err' = [type |-> "Exception", line |-> 53]
               /\ UNCHANGED metric_value
            \/ /\ ~get_metric_value_fails(metric_dict, name)
               /\ metric_value' = get_metric_value(metric_dict, name)
               /\ mpc' = "l58"
               /\ UNCHANGED err
    /\ UNCHANGED << metric_dict, result, trainVars, fn, pc, ret, heap, calls, faults,
                    readVars, pdeVars, histVars >>

\* line 58 returning nothing
main_l58_none ==
    /\ mpc = "l58"
    /\ result' = None
    /\ mpc' = "returned"
    /\ UNCHANGED << trace, metric_dict, metric_names, metric_value, trainVars, frameVars,
                    readVars, pdeVars, histVars >>

\* line 58: return metric_value
main_l58 ==
    /\ mpc = "l58"
    /\ result' = metric_value
    /\ mpc' = "returned"
    /\ UNCHANGED << trace, metric_dict, metric_names, metric_value, trainVars, frameVars,
                    readVars, pdeVars, histVars >>

Next ==
    \/ main_l45 \/ main_l48_call \/ main_l48_return \/ main_l53 \/ main_l58
    \/ train_call_read_data_fn \/ train_take_data \/ train_call_pde_fn
    \/ train_recall_pde_fn \/ train_take_outputs \/ train_abort
    \/ read_l19 \/ read_l20 \/ read_l21
    \/ pde_l27 \/ pde_l28 \/ pde_l29 \/ pde_l30 \/ pde_l31 \/ pde_l32

Spec == Init /\ [][Next]_vars

(* ------------------------- properties: pde_fn -------------------------- *)
\* pde_fn has run line 31 of the running call
PdeStored == fn = "pde_fn" /\ pc \in {"l32", "returned"}

PdeReturned == fn = "pde_fn" /\ pc = "returned"

\* the residual tensor the outputs dict holds
StoredF == heap[outputs]["f"]

\* the n-th derivative of the u pde_fn was given, by the primitive
RECURSIVE DerivativeOfU(_)
DerivativeOfU(n) == IF n = 0 THEN entry["u"] ELSE fwd_gradient(DerivativeOfU(n - 1), x)

\* C1: a successful pde_fn call stores under f exactly
\* -l1 * u * U_x - exp(l2) * U_xxx, where U_x, U_xx, U_xxx are the first,
\* second and third derivative of u, each the primitive's derivative of the
\* one before.
C1_ResidualValue ==
    PdeStored =>
        /\ U_x = DerivativeOfU(1) /\ U_xx = DerivativeOfU(2) /\ U_xxx = DerivativeOfU(3)
        /\ "f" \in DOMAIN heap[outputs]
        /\ DOMAIN StoredF.v = DOMAIN x.v
        /\ \A i \in DOMAIN x.v :
              StoredF.v[i] =
                 FSub(FMul(FMul(FNeg(Fin(extra_variables.l1, 0)), entry["u"].v[i]),
                           DerivativeOfU(1).v[i]),
                      FMul(torch_exp(extra_variables.l2), DerivativeOfU(3).v[i]))

\* a call returned whose residual has both a non-zero -l1*u*U_x part and a
\* non-zero exp(l2)*U_xxx part
C1_Witness ==
    /\ PdeReturned
    /\ \E i \in DOMAIN StoredF.v :
          StoredF.v[i].k = "fin" /\ StoredF.v[i].c # 0 /\ StoredF.v[i].e # 0

\* C2: when pde_fn returns, the dict it returns holds f and held u on entry;
\* a call whose dict lacks u never gets past line 27, returns nothing and
\* leaves the dict as it was.
C2_FPopulated ==
    /\ PdeReturned =>
          /\ ret # 0 /\ "f" \in DOMAIN heap[ret]
          /\ "u" \in DOMAIN entry
    /\ (fn = "pde_fn" /\ "u" \notin DOMAIN entry) =>
          /\ pc \in {"l27", "raised"}
          /\ ret = 0
          /\ heap[outputs] = entry

\* a call returned f in a dict that held no f on entry
C2_Witness == PdeReturned /\ "f" \notin DOMAIN entry /\ "f" \in DOMAIN heap[ret]

\* C6: a call repeated with the arguments of the call before it (the dict
\* already holding that call's f) stores the identical f.
C6_Idempotent == (PdeStored /\ repeat) => StoredF = prev_f

\* a repeated call returned a residual that is not zero
C6_Witness ==
    /\ PdeReturned /\ repeat
    /\ \E i \in DOMAIN StoredF.v : StoredF.v[i] # Fin(0, 0)

\* C7, the steps: a statement of pde_fn changes nothing but the entry f of
\* the dict it was given: not x, not extra_variables, no other key, no other
\* object, nothing of main, train or read_data_fn.
C7_FrameStep ==
    (fn = "pde_fn" /\ pc \in {"l27", "l28", "l29", "l30", "l31", "l32"}) =>
        /\ x' = x /\ extra_variables' = extra_variables /\ outputs' = outputs
        /\ DOMAIN heap' = DOMAIN heap
        /\ DOMAIN heap'[outputs] \subseteq (DOMAIN heap[outputs]) \cup {"f"}
        /\ \A k \in (DOMAIN heap[outputs]) \ {"f"} :
              k \in DOMAIN heap'[outputs] /\ heap'[outputs][k] = heap[outputs][k]
        /\ mainVars' = mainVars /\ trainVars' = trainVars /\ readVars' = readVars

\* C7, the result: the dict returned is the dict passed in, every key but f
\* as on entry.
C7_FrameResult ==
    PdeReturned =>
        /\ ret = outputs
        /\ DOMAIN heap[ret] = (DOMAIN entry) \cup {"f"}
        /\ \A k \in (DOMAIN entry) \ {"f"} : heap[ret][k] = entry[k]

\* C7: the frame of pde_fn.
C7_Frame == []C7_FrameResult /\ [][C7_FrameStep]_vars

\* a call returned a dict that holds another key beside u and f
C7_Witness == PdeReturned /\ "v" \in DOMAIN heap[ret]

AllZero(t) == \A i \in DOMAIN t.v : t.v[i] = Fin(0, 0)

\* the given u is constant in space
ConstantU == "u" \in DOMAIN entry /\ Len(entry["u"].g) <= 1

\* the given u is the identity u(x) = x
IdentityU == "u" \in DOMAIN entry /\ entry["u"].g = <<0, 1>>

\* exp(l2) is a finite float32
ExpFinite == extra_variables.l2 <= ExpMaxArg

MinusL1X ==
    /\ DOMAIN StoredF.v = DOMAIN x.v
    /\ \A i \in DOMAIN x.v : StoredF.v[i] = Fin(-extra_variables.l1 * x.v[i], 0)

\* U_x = 1 at every point
AllOne(t) == \A i \in DOMAIN t.v : t.v[i] = Fin(1, 0)

\* C9 as stated: for u(x) = x and every l1, l2, U_x = 1, U_xx = U_xxx = 0
\* and f = -l1 * x.
C9_Original ==
    (PdeReturned /\ IdentityU) =>
        AllOne(U_x) /\ AllZero(U_xx) /\ AllZero(U_xxx) /\ MinusL1X

\* C9 amended: for u(x) = x, U_x = 1 and U_xx = U_xxx = 0 for every l1, l2,
\* and f = -l1 * x, whatever l2, when exp(l2) is finite; when exp(l2)
\* overflows, f is NaN.
C9_IdentityLaw ==
    (PdeReturned /\ IdentityU) =>
        /\ AllOne(U_x) /\ AllZero(U_xx) /\ AllZero(U_xxx)
        /\ ExpFinite => MinusL1X
        /\ ~ExpFinite => \A i \in DOMAIN StoredF.v : StoredF.v[i] = NaN

\* a call with u(x) = x, l1 # 0 and l2 # 0 returned a non-zero f
C9_Witness ==
    /\ PdeReturned /\ IdentityU /\ ExpFinite
    /\ extra_variables.l1 # 0 /\ extra_variables.l2 # 0
    /\ \E i \in DOMAIN StoredF.v : StoredF.v[i] # Fin(0, 0)

(* ----------------------- properties: read_data_fn ---------------------- *)
ReadReturned == fn = "read_data_fn" /\ pc = "returned"

\* the directory holds KdV.mat with a field uu
HasUU == root_path.has_file /\ "uu" \in DOMAIN root_path.mat

\* ... and uu is a numeric array
NumericUU == HasUU /\ root_path.mat["uu"].dtype \in {"complex128", "float64"}

\* n is a float32 (integers of magnitude below 2^25)
IsFloat32(n) == Abs(n) <= TwoTo24 \/ n % 2 = 0

\* r is the float32 nearest to v, the even one of two equally near
RoundsTo(r, v) ==
    /\ IsFloat32(r)
    /\ IF IsFloat32(v) THEN r = v ELSE Abs(r - v) = 1 /\ r % 4 = 0

\* C3: for a file whose field uu is a numeric array of shape (Nx, Nt),
\* read_data_fn returns a dict whose only key is u, whose value has shape
\* (Nx, Nt), is float32 and holds, element by element, the real part of uu
\* rounded to float32, the imaginary part gone.
C3_RealPartFloat32 ==
    (fn = "read_data_fn" /\ NumericUU) =>
        /\ pc # "raised"
        /\ ReadReturned =>
              LET uu == root_path.mat["uu"]
                  u == heap[ret]["u"]
              IN  /\ DOMAIN heap[ret] = {"u"}
                  /\ u.dtype = "float32"
                  /\ u.shape = uu.shape
                  /\ DOMAIN u.elems = DOMAIN uu.elems
                  /\ \A k \in DOMAIN uu.elems :
                        /\ RoundsTo(u.elems[k].re, uu.elems[k].re)
                        /\ u.elems[k].im = 0

\* a 1-by-2 array returned: an element with an imaginary part, dropped, and
\* an element float32 cannot hold, rounded
C3_Witness ==
    /\ ReadReturned /\ NumericUU
    /\ root_path.mat["uu"].shape = <<1, 2>>
    /\ root_path.mat["uu"].elems[1].im # 0
    /\ heap[ret]["u"].elems[2].re # root_path.mat["uu"].elems[2].re

\* the error taxonomy: the KeyError of a missing field and the ValueError of
\* a failed conversion are the DataFormatError
Taxonomy(e) == IF e.type \in {"KeyError", "ValueError"} THEN "DataFormatError" ELSE e.type

SpelledUU ==
    /\ HasUU /\ root_path.mat["uu"].dtype = "str"
    /\ \A k \in DOMAIN root_path.mat["uu"].elems : CanParseFloat(root_path.mat["uu"].elems[k].s)

C5_NoRecovery ==
    fn # "" =>
        /\ faults <= 1
        /\ faults = 1 <=> pc = "raised"
        /\ pc = "raised" =>
              /\ err.type # "" /\ ret = 0
              /\ fn = "pde_fn" =>
                    /\ heap[outputs] = entry
                    /\ calls = [i \in 1..(err.line - 27) |-> "fwd_gradient"]
              /\ fn = "read_data_fn" =>
                    /\ heap = <<>>
                    /\ calls \in { <<"load_data">>, <<"load_data", "np.real", "astype">> }

\* C5, the steps: the exception of a callback reaches main unchanged.
C5_Propagates ==
    (fn # "" /\ pc = "raised") => (mpc' = "raised" /\ tpc' = "failed" /\ err' = err)

\* C5: failures are raised to the caller uncaught.
C5_Uncaught == []C5_NoRecovery /\ [][C5_Propagates]_vars

\* pde_fn failed in its third differentiation step
C5_Witness == fn = "pde_fn" /\ pc = "raised" /\ err.line = 30 /\ "f" \notin DOMAIN heap[outputs]

(* --------------------------- properties: main -------------------------- *)
MainSteps == << "extras", "train", "get_metric_value" >>

\* C10: main calls extras, train and get_metric_value in this order, each at
\* most once and all three before it returns; it extracts no metric before
\* train has completed, and what it returns is the metric cfg
\* optimized_metric names in the dictionary train returned (nothing when cfg
\* names none).
C10_MainOrder ==
    /\ Len(trace) <= Len(MainSteps)
    /\ trace = SubSeq(MainSteps, 1, Len(trace))
    /\ Len(trace) = Len(MainSteps) => tpc = "done"
    /\ mpc # "returned" => result = None
    /\ mpc = "returned" =>
          /\ trace = MainSteps
          /\ result = IF metric_names = "" THEN None
                      ELSE Some(metric_dict[metric_names])

\* main returned a metric value
C10_Witness == mpc = "returned" /\ result.some /\ evals > 0

====
